---- MODULE Spec2Model ----
(***************************************************************************)
(* Model of the FieldnameAccess derive macro (src/src/lib.rs) and of the   *)
(* accessors it generates.                                                 *)
(*                                                                         *)
(* Text is modelled as a sequence of one-character strings, so that the    *)
(* character tests of shorten_type act on real characters.  A type is a    *)
(* syntax tree (syn::Type); generate_variant_name prints it into a token   *)
(* string and shorten_type works on that string.                           *)
(***************************************************************************)
EXTENDS Naturals, Sequences, FiniteSets, TLC

VARIABLES pc, ty, type_str, variant_name, inp, out, self, excl, ret

vars == <<pc, ty, type_str, variant_name, inp, out, self, excl, ret>>

(***************************************************************************)
(* Bounds of the model.                                                    *)
(***************************************************************************)
\* nesting depth of the enumerated type signatures
MaxDepth == 2
\* number of fields of the enumerated record declarations
MaxFields == 2

(***************************************************************************)
(* Characters.                                                             *)
(***************************************************************************)
UpperSeq == <<"A","B","C","D","E","F","G","H","I","J","K","L","M",
              "N","O","P","Q","R","S","T","U","V","W","X","Y","Z">>
LowerSeq == <<"a","b","c","d","e","f","g","h","i","j","k","l","m",
              "n","o","p","q","r","s","t","u","v","w","x","y","z">>
DigitSeq == <<"0","1","2","3","4","5","6","7","8","9">>

Range(s) == {s[i] : i \in DOMAIN s}

is_uppercase(c) == c \in Range(UpperSeq)

is_ascii_alphanumeric(c) == c \in Range(UpperSeq) \cup Range(LowerSeq) \cup Range(DigitSeq)

\* char/str to_uppercase on ASCII text
to_uppercase(c) ==
    IF c \in Range(LowerSeq)
    THEN UpperSeq[CHOOSE i \in DOMAIN LowerSeq : LowerSeq[i] = c]
    ELSE c

(***************************************************************************)
(* Identifiers used by the declarations of the model.                      *)
(***************************************************************************)
id_std == <<"s","t","d">>
id_option == <<"o","p","t","i","o","n">>
id_string == <<"s","t","r","i","n","g">>
id_primitive == <<"p","r","i","m","i","t","i","v","e">>
id_Option == <<"O","p","t","i","o","n">>
id_Result == <<"R","e","s","u","l","t">>
id_String == <<"S","t","r","i","n","g">>
id_ImportantInfo == <<"I","m","p","o","r","t","a","n","t","I","n","f","o">>
id_OptionI64 == <<"O","p","t","i","o","n","I","6","4">>
id_i64 == <<"i","6","4">>
id_u8 == <<"u","8">>
id_u64 == <<"u","6","4">>
id_bool == <<"b","o","o","l">>
id_T == <<"T">>
id_F == <<"F">>
id_a == <<"a">>
id_AmazingAge == <<"A","m","a","z","i","n","g","A","g","e">>

(***************************************************************************)
(* syn::Type: a path with generic arguments on its last segment, a         *)
(* reference with a lifetime, or a tuple (the unit type is the empty       *)
(* tuple).                                                                 *)
(***************************************************************************)
Path(segs, args) == [kind |-> "path", segs |-> segs, args |-> args]

Ref(lifetime, elem) == [kind |-> "ref", segs |-> <<lifetime>>, args |-> <<elem>>]

Tuple(elems) == [kind |-> "tuple", segs |-> <<>>, args |-> elems]

Unit == Tuple(<<>>)

\* the segments of a path joined by the path separator
RECURSIVE JoinPath(_)
JoinPath(segs) ==
    IF Len(segs) = 1 THEN segs[1]
    ELSE segs[1] \o <<" ", ":", ":", " ">> \o JoinPath(Tail(segs))

\* ty.to_token_stream().to_string(): the tokens of the type, blank-separated
RECURSIVE Render(_), RenderList(_)
Render(t) ==
    CASE t.kind = "path" ->
           JoinPath(t.segs) \o
           (IF t.args = <<>> THEN <<>>
            ELSE <<" ", "<", " ">> \o RenderList(t.args) \o <<" ", ">">>)
      [] t.kind = "ref" ->
           <<"&", " ", "'">> \o t.segs[1] \o <<" ">> \o Render(t.args[1])
      [] t.kind = "tuple" ->
           <<"(">> \o RenderList(t.args) \o <<")">>

RenderList(ts) ==
    IF ts = <<>> THEN <<>>
    ELSE IF Len(ts) = 1 THEN Render(ts[1])
    ELSE Render(ts[1]) \o <<",", " ">> \o RenderList(Tail(ts))

(***************************************************************************)
(* shorten_type.                                                           *)
(***************************************************************************)
\* the outcome of a call that panics
Panic == <<"panic">>

\* String += &callee(): a panic of the callee unwinds through the caller
Append2(s, r) == IF r = Panic THEN Panic ELSE s \o r

\* the least element of a non-empty set of indices
First(idx) == CHOOSE i \in idx : \A j \in idx : i <= j

\* .skip_while(|c| !c.is_uppercase()): the text from its first upper-case
\* character on
skip_while_not_uppercase(s) ==
    LET idx == {i \in DOMAIN s : is_uppercase(s[i])}
    IN  IF idx = {} THEN <<>> ELSE SubSeq(s, First(idx), Len(s))

\* .filter(|c| c.is_ascii_alphanumeric())
filter_alphanumeric(s) == SelectSeq(s, is_ascii_alphanumeric)

\* a fallback that forgets to upper-case the first character
shorten_lowercase_NoUpper(type_str_) ==
    LET cleaned_str == filter_alphanumeric(type_str_)
    IN  IF cleaned_str = <<>> THEN Panic ELSE cleaned_str

\* the else branch of shorten_type: no upper-case character in the text.
\* cleaned_str[0..1] panics on an empty string.
shorten_lowercase(type_str_) ==
    LET cleaned_str == filter_alphanumeric(type_str_)
    IN  IF cleaned_str = <<>> THEN Panic
        ELSE <<to_uppercase(cleaned_str[1])>> \o Tail(cleaned_str)

RECURSIVE shorten_type(_)
\* the while-let loop of shorten_type over the text from the first
\* upper-case character on: the alphanumeric characters are pushed up to
\* the first '<'; there the rest of the text is shortened, appended, and
\* the loop is left
shorten_complex(short_type) ==
    LET idx == {i \in DOMAIN short_type : short_type[i] = "<"}
    IN  IF idx = {} THEN filter_alphanumeric(short_type)
        ELSE Append2(filter_alphanumeric(SubSeq(short_type, 1, First(idx) - 1)),
                     shorten_type(SubSeq(short_type, First(idx) + 1, Len(short_type))))

shorten_type(type_str_) ==
    LET short_type == skip_while_not_uppercase(type_str_)
    IN  IF short_type # <<>>
        THEN shorten_complex(short_type)
        ELSE shorten_lowercase(type_str_)

generate_variant_name(t) == shorten_type(Render(t))

(***************************************************************************)
(* The type signatures the canonicalizer is run on.                        *)
(***************************************************************************)
Quals == {<<>>, <<id_std, id_option>>, <<id_std, id_primitive>>}

Terminals == {id_String, id_i64, id_u8, id_T}

BaseTypes == {Path(q \o <<t>>, <<>>) : q \in Quals, t \in Terminals} \cup {Unit}

RECURSIVE TypesAt(_)
TypesAt(d) ==
    IF d = 0 THEN BaseTypes
    ELSE LET prev == TypesAt(d - 1)
         IN  prev
             \cup {Path(q \o <<id_Option>>, <<a>>) : q \in Quals, a \in prev}
             \cup {Ref(id_a, a) : a \in prev}
             \cup (IF d = 1
                   THEN {Path(<<id_Result>>, <<a, b>>) : a \in prev, b \in prev}
                   ELSE {})

Types == TypesAt(MaxDepth)

NoType == [kind |-> "none", segs |-> <<>>, args |-> <<>>]


(***************************************************************************)
(* Option values.                                                          *)
(***************************************************************************)
None == [some |-> FALSE]

Some(x) == [some |-> TRUE, val |-> x]

(***************************************************************************)
(* The derive input (syn::DeriveInput).                                    *)
(***************************************************************************)
\* the ident of a tuple field (syn: None); no identifier is empty
NoIdent == ""

\* a field of the input: its identifier (NoIdent for a tuple field), its
\* type and its attributes
Field(ident, t, attrs) == [ident |-> ident, ty |-> t, attrs |-> attrs]

\* #[path = "value"]; lit is "Str" for a string literal
NameValue(path, lit, value) == [meta |-> "NameValue", path |-> path, lit |-> lit, value |-> value]

\* #[path(...)]
List(path) == [meta |-> "List", path |-> path, lit |-> "none", value |-> <<>>]

DeriveInput(data, fields_kind, fields) == [data |-> data, fields_kind |-> fields_kind, fields |-> fields]

NoDecl == DeriveInput("none", "none", <<>>)

\* retrieve_fieldname: the first #[fieldname = "..."] attribute with a
\* string literal
RECURSIVE retrieve_fieldname(_)
retrieve_fieldname(attrs) ==
    IF attrs = <<>> THEN None
    ELSE LET attr == Head(attrs)
         IN  IF attr.meta = "NameValue" /\ attr.path = "fieldname" /\ attr.lit = "Str"
             THEN Some(attr.value)
             ELSE retrieve_fieldname(Tail(attrs))

\* a field_map that ignores the #[fieldname] attribute
field_map_NoOverride(fields) ==
    [i \in DOMAIN fields |->
        [field_name |-> fields[i].ident,
         field_type |-> fields[i].ty,
         variant_ident |-> generate_variant_name(fields[i].ty)]]

\* field_map: (field_name, field_type, variant_ident) per field, in
\* declaration order
field_map(fields) ==
    [i \in DOMAIN fields |->
        [field_name |-> fields[i].ident,
         field_type |-> fields[i].ty,
         variant_ident |->
            LET name == retrieve_fieldname(fields[i].attrs)
            IN  IF name.some THEN name.val
                ELSE generate_variant_name(fields[i].ty)]]

\* Itertools::unique_by on the variant identifier: the first element of each
\* key is kept
RECURSIVE unique_by_variant_ident(_, _)
unique_by_variant_ident(fm, seen) ==
    IF fm = <<>> THEN <<>>
    ELSE IF Head(fm).variant_ident \in seen
         THEN unique_by_variant_ident(Tail(fm), seen)
         ELSE <<Head(fm)>> \o
              unique_by_variant_ident(Tail(fm), seen \cup {Head(fm).variant_ident})

\* a variant list that keeps one variant per field
generate_enum_variants_NoDedup(fm, is_mut) ==
    [i \in DOMAIN fm |->
        [variant_ident |-> fm[i].variant_ident,
         is_mut |-> is_mut,
         field_type |-> fm[i].field_type]]

\* generate_enum_variants: #variant_ident(&'field [mut] #field_type)
generate_enum_variants(fm, is_mut) ==
    LET uniq == unique_by_variant_ident(fm, {})
    IN  [i \in DOMAIN uniq |->
            [variant_ident |-> uniq[i].variant_ident,
             is_mut |-> is_mut,
             field_type |-> uniq[i].field_type]]

\* match arms that all borrow the first field
generate_match_arms_FirstField(fm, is_mut) ==
    [i \in DOMAIN fm |->
        [pattern |-> fm[i].field_name,
         variant_ident |-> fm[i].variant_ident,
         is_mut |-> is_mut,
         field_name |-> fm[1].field_name]]

\* match arms that borrow the field declared after the one named (the
\* last arm borrows the first field)
generate_match_arms_NextField(fm, is_mut) ==
    [i \in DOMAIN fm |->
        [pattern |-> fm[i].field_name,
         variant_ident |-> fm[i].variant_ident,
         is_mut |-> is_mut,
         field_name |-> fm[(i % Len(fm)) + 1].field_name]]

\* generate_match_arms:
\*   #field_name_str => Some(Enum::#variant_ident(&[mut] self.#field_name))
generate_match_arms(fm, is_mut) ==
    [i \in DOMAIN fm |->
        [pattern |-> fm[i].field_name,
         variant_ident |-> fm[i].variant_ident,
         is_mut |-> is_mut,
         field_name |-> fm[i].field_name]]

\* the macro panicked: nothing is emitted
MacroPanic ==
    [panicked |-> TRUE, value_variants |-> <<>>, value_variants_mut |-> <<>>,
     match_arms |-> <<>>, match_arms_mut |-> <<>>]

\* fieldname_accessor: the derive macro.  The names of the two enums and
\* their derives (container attributes) do not enter the variants or the
\* match arms and are left out.
fieldname_accessor(input) ==
    IF input.data \in {"Union", "Enum"} THEN MacroPanic
    ELSE IF input.fields_kind \in {"Unnamed", "Unit"} THEN MacroPanic
    ELSE LET fm == field_map(input.fields)
         IN  IF \E i \in DOMAIN fm : fm[i].variant_ident = Panic
             THEN MacroPanic
             ELSE [panicked |-> FALSE,
                   value_variants |-> generate_enum_variants(fm, FALSE),
                   value_variants_mut |-> generate_enum_variants(fm, TRUE),
                   match_arms |-> generate_match_arms(fm, FALSE),
                   match_arms_mut |-> generate_match_arms(fm, TRUE)]

\* the FIELDS constant: the field names in declaration order
generate_fields_const(fields) == [i \in DOMAIN fields |-> fields[i].ident]

NoOut == [macro |-> MacroPanic, FIELDS |-> <<>>]

(***************************************************************************)
(* The compiler on the expansion.                                          *)
(***************************************************************************)
\* a type with the qualification of its paths removed
RECURSIVE Strip(_)
Strip(t) ==
    [kind |-> t.kind,
     segs |-> IF t.kind = "path" THEN <<t.segs[Len(t.segs)]>> ELSE t.segs,
     args |-> [i \in DOMAIN t.args |-> Strip(t.args[i])]]

\* two signatures name the same type: a path and its qualified form resolve
\* to one item
SameType(t1, t2) == Strip(t1) = Strip(t2)

\* the payload type of the variant an arm constructs
PayloadType(variants, variant_ident) ==
    LET i == CHOOSE i \in DOMAIN variants : variants[i].variant_ident = variant_ident
    IN  variants[i].field_type

FieldType(input, field_name) ==
    LET i == CHOOSE i \in DOMAIN input.fields : input.fields[i].ident = field_name
    IN  input.fields[i].ty

\* each arm passes &self.#field_name to a variant declared with the type of
\* the first field of that variant identifier
ArmsWellTyped(input, variants, arms) ==
    \A i \in DOMAIN arms :
        SameType(FieldType(input, arms[i].field_name),
                 PayloadType(variants, arms[i].variant_ident))

\* the expansion compiles: the arms are well typed, and each enum uses its
\* 'field lifetime parameter (an enum without variants does not)
Compiles(input, macro) ==
    /\ ~macro.panicked
    /\ macro.value_variants # <<>>
    /\ ArmsWellTyped(input, macro.value_variants, macro.match_arms)
    /\ ArmsWellTyped(input, macro.value_variants_mut, macro.match_arms_mut)

(***************************************************************************)
(* The generated accessors.                                                *)
(***************************************************************************)
\* a match whose default arm is taken for the first declared field
match_fieldname_DefaultFirst(arms, fieldname) ==
    IF \E i \in DOMAIN arms : arms[i].pattern = fieldname
    THEN LET i == CHOOSE i \in DOMAIN arms :
                    /\ arms[i].pattern = fieldname
                    /\ \A j \in DOMAIN arms : arms[j].pattern = fieldname => i <= j
         IN  Some([variant_ident |-> arms[i].variant_ident,
                   is_mut |-> arms[i].is_mut,
                   field |-> arms[i].field_name])
    ELSE IF arms # <<>>
         THEN Some([variant_ident |-> arms[1].variant_ident,
                    is_mut |-> arms[1].is_mut,
                    field |-> arms[1].field_name])
         ELSE None

\* match fieldname { #(#match_arms,)* _ => None }: the first arm whose
\* string literal equals fieldname; the view borrows self.#field_name
match_fieldname(arms, fieldname) ==
    IF \E i \in DOMAIN arms : arms[i].pattern = fieldname
    THEN LET i == CHOOSE i \in DOMAIN arms :
                    /\ arms[i].pattern = fieldname
                    /\ \A j \in DOMAIN arms : arms[j].pattern = fieldname => i <= j
         IN  Some([variant_ident |-> arms[i].variant_ident,
                   is_mut |-> arms[i].is_mut,
                   field |-> arms[i].field_name])
    ELSE None

\* field_iter: one (name, shared view) pair per name of FIELDS
field_iter(fields_const, arms) ==
    [i \in DOMAIN fields_const |->
        [name |-> fields_const[i],
         view |-> match_fieldname(arms, fields_const[i])]]

Idle == [call |-> "none", arg |-> "", res |-> None, items |-> <<>>]

NoSelf == [n \in {} |-> "v0"]


(***************************************************************************)
(* The record declarations the macro is run on.                            *)
(***************************************************************************)
t_i64 == Path(<<id_i64>>, <<>>)
t_u8 == Path(<<id_u8>>, <<>>)
t_u64 == Path(<<id_u64>>, <<>>)
t_bool == Path(<<id_bool>>, <<>>)
t_String == Path(<<id_String>>, <<>>)
t_std_String == Path(<<id_std, id_string, id_String>>, <<>>)
t_T == Path(<<id_T>>, <<>>)
t_F == Path(<<id_F>>, <<>>)
t_Option(a) == Path(<<id_Option>>, <<a>>)
t_std_Option(a) == Path(<<id_std, id_option, id_Option>>, <<a>>)

fieldname_attr(tag) == NameValue("fieldname", "Str", tag)

\* the names of the fields of the enumerated declarations, by position
PosNames == <<"name", "age", "dog_age", "cat_age">>

FieldTypes == {t_i64, t_String, t_std_String}

AttrChoices == {<<>>, <<fieldname_attr(id_AmazingAge)>>}

\* struct S { name: .., age: .., .. } with up to MaxFields fields
EnumeratedDecls ==
    UNION {
        {DeriveInput("Struct", "Named",
                     [i \in 1..n |-> Field(PosNames[i], f[i][1], f[i][2])]) :
            f \in [1..n -> FieldTypes \X AttrChoices]} :
        n \in 0..MaxFields}

\* the structs of tests/mod.rs
TestStruct ==
    DeriveInput("Struct", "Named",
        <<Field("name", t_String, <<>>),
          Field("age", t_u8, <<>>),
          Field("important", t_Option(Path(<<id_ImportantInfo>>, <<>>)), <<>>)>>)

User ==
    DeriveInput("Struct", "Named",
        <<Field("name", t_String, <<>>),
          Field("age", t_u64, <<>>),
          Field("does_love_ranni", t_bool, <<>>)>>)

TestComplexPath ==
    DeriveInput("Struct", "Named",
        <<Field("name", t_std_Option(t_String), <<>>),
          Field("age", t_std_Option(t_std_Option(t_i64)), <<>>)>>)

GenericStruct ==
    DeriveInput("Struct", "Named",
        <<Field("name", Ref(id_a, t_T), <<>>),
          Field("age", t_F, <<>>)>>)

NamedFieldname ==
    DeriveInput("Struct", "Named",
        <<Field("name", t_String, <<>>),
          Field("age", t_i64, <<fieldname_attr(id_AmazingAge)>>),
          Field("dog_age", t_i64, <<>>),
          Field("cat_age", t_i64, <<>>)>>)

\* further declarations: three i64 fields, one of them overridden; a doc
\* comment and a #[fieldname = 5] before the override; a #[fieldname(..)]
\* list; two types of one canonical name; a field of the unit type
ThreeAges ==
    DeriveInput("Struct", "Named",
        <<Field("dog_age", t_i64, <<>>),
          Field("cat_age", t_i64, <<>>),
          Field("age", t_i64, <<fieldname_attr(id_AmazingAge)>>)>>)

Documented ==
    DeriveInput("Struct", "Named",
        <<Field("name", t_String,
                <<NameValue("doc", "Str", id_a),
                  NameValue("fieldname", "Int", <<"5">>),
                  fieldname_attr(id_AmazingAge)>>),
          Field("age", t_i64, <<List("fieldname")>>)>>)

Colliding ==
    DeriveInput("Struct", "Named",
        <<Field("name", t_Option(t_i64), <<>>),
          Field("age", Path(<<id_OptionI64>>, <<>>), <<>>)>>)

UnitField ==
    DeriveInput("Struct", "Named",
        <<Field("name", t_String, <<>>),
          Field("age", Unit, <<>>)>>)

ExampleDecls ==
    {TestStruct, User, TestComplexPath, GenericStruct, NamedFieldname,
     ThreeAges, Documented, Colliding, UnitField}

\* declarations that are no struct with named fields
OtherShapes ==
    {DeriveInput("Enum", "none", <<>>),
     DeriveInput("Union", "Named", <<Field("name", t_i64, <<>>)>>),
     DeriveInput("Struct", "Unit", <<>>),
     DeriveInput("Struct", "Unnamed", <<Field(NoIdent, t_i64, <<>>)>>),
     DeriveInput("Struct", "Unnamed",
                 <<Field(NoIdent, t_i64, <<>>), Field(NoIdent, t_String, <<>>)>>)}

Decls == EnumeratedDecls \cup ExampleDecls \cup OtherShapes

\* the values a field holds
Values == {"v0", "v1"}

DeclaredNames(input) ==
    IF input.data = "Struct" /\ input.fields_kind = "Named"
    THEN {input.fields[i].ident : i \in DOMAIN input.fields}
    ELSE {}

\* strings that are no field name of any declaration above
UnknownNames == {"Age", "nam", "not_important"}

FieldNames(input) == DeclaredNames(input) \cup UnknownNames

(***************************************************************************)
(* The canonicalizer alone: one type signature, printed and shortened.     *)
(***************************************************************************)
InitShorten ==
    /\ pc = "type"
    /\ ty \in Types
    /\ type_str = <<>>
    /\ variant_name = <<>>
    /\ inp = NoDecl
    /\ out = NoOut
    /\ self = NoSelf
    /\ excl = None
    /\ ret = Idle

\* generate_variant_name, first statement
ToTokenString ==
    /\ pc = "type"
    /\ type_str' = Render(ty)
    /\ pc' = "tokens"
    /\ UNCHANGED <<ty, variant_name, inp, out, self, excl, ret>>

\* generate_variant_name, second statement
ShortenType ==
    /\ pc = "tokens"
    /\ variant_name' = shorten_type(type_str)
    /\ pc' = "shortened"
    /\ UNCHANGED <<ty, type_str, inp, out, self, excl, ret>>

NextShorten == ToTokenString \/ ShortenType

SpecShorten == InitShorten /\ [][NextShorten]_vars

(***************************************************************************)
(* The macro on a declaration, the compiler on its expansion, and the      *)
(* generated accessors on an instance of the record.                       *)
(***************************************************************************)
Init ==
    /\ pc = "input"
    /\ inp \in Decls
    /\ out = NoOut
    /\ self = NoSelf
    /\ excl = None
    /\ ret = Idle
    /\ ty = NoType
    /\ type_str = <<>>
    /\ variant_name = <<>>

\* #[derive(FieldnameAccess)]
Derive ==
    /\ pc = "input"
    /\ LET macro == fieldname_accessor(inp)
       IN  /\ out' = [macro |-> macro,
                      FIELDS |-> IF macro.panicked THEN <<>>
                                 ELSE generate_fields_const(inp.fields)]
           /\ pc' = IF macro.panicked THEN "aborted" ELSE "expanded"
    /\ UNCHANGED <<ty, type_str, variant_name, inp, self, excl, ret>>

\* the compiler checks the expansion
Compile ==
    /\ pc = "expanded"
    /\ pc' = IF Compiles(inp, out.macro) THEN "compiled" ELSE "rejected"
    /\ UNCHANGED <<ty, type_str, variant_name, inp, out, self, excl, ret>>

\* an instance of the record is built: Default::default(), every field
\* holding its default value
New ==
    /\ pc = "compiled"
    /\ self' = [n \in DeclaredNames(inp) |-> "v0"]
    /\ pc' = "live"
    /\ UNCHANGED <<ty, type_str, variant_name, inp, out, excl, ret>>

\* self.field(fieldname); the shared view is dropped before the next call
CallField(fieldname) ==
    /\ pc = "live"
    /\ ~excl.some
    /\ ret' = [call |-> "field", arg |-> fieldname,
               res |-> match_fieldname(out.macro.match_arms, fieldname),
               items |-> <<>>]
    /\ UNCHANGED <<pc, ty, type_str, variant_name, inp, out, self, excl>>

\* self.field_mut(fieldname): a view returned holds the exclusive borrow
CallFieldMut(fieldname) ==
    /\ pc = "live"
    /\ ~excl.some
    /\ LET res == match_fieldname(out.macro.match_arms_mut, fieldname)
       IN  /\ ret' = [call |-> "field_mut", arg |-> fieldname, res |-> res,
                      items |-> <<>>]
           /\ excl' = IF res.some
                      THEN [some |-> TRUE, view |-> res.val, name |-> fieldname,
                            wrote |-> None]
                      ELSE None
    /\ UNCHANGED <<pc, ty, type_str, variant_name, inp, out, self>>

\* *view = v through the exclusive view
Write(v) ==
    /\ pc = "live"
    /\ excl.some
    /\ self' = [self EXCEPT ![excl.view.field] = v]
    /\ excl' = [excl EXCEPT !.wrote = Some(v)]
    /\ UNCHANGED <<pc, ty, type_str, variant_name, inp, out, ret>>

\* the exclusive view goes out of scope
Release ==
    /\ pc = "live"
    /\ excl.some
    /\ excl' = None
    /\ UNCHANGED <<pc, ty, type_str, variant_name, inp, out, self, ret>>

\* self.field_iter() collected
CallFieldIter ==
    /\ pc = "live"
    /\ ~excl.some
    /\ ret' = [call |-> "field_iter", arg |-> "", res |-> None,
               items |-> field_iter(out.FIELDS, out.macro.match_arms)]
    /\ UNCHANGED <<pc, ty, type_str, variant_name, inp, out, self, excl>>

Next ==
    \/ Derive
    \/ Compile
    \/ New
    \/ \E fieldname \in FieldNames(inp) : CallField(fieldname)
    \/ \E fieldname \in FieldNames(inp) : CallFieldMut(fieldname)
    \/ \E v \in Values : Write(v)
    \/ Release
    \/ CallFieldIter

Spec == Init /\ [][Next]_vars


(***************************************************************************)
(* Properties of the canonicalizer (under SpecShorten).                    *)
(***************************************************************************)
tag_I64 == <<"I", "6", "4">>
tag_U8 == <<"U", "8">>
tag_OptionOptionI64 == id_Option \o id_Option \o tag_I64
tag_OptionString == id_Option \o id_String

\* C4: the tag of a signature with an upper-case character followed later by
\* a '<' is the alphanumeric characters from that upper-case character up
\* to the '<', followed by the tag of the text after the '<'; the tag of a
\* signature without upper-case character is its alphanumeric characters,
\* the first of them upper-cased; Option<Option<i64>> gives OptionOptionI64,
\* std::option::Option<String> gives OptionString, u8 gives U8, T gives T.
C4_Canonicalize ==
    pc = "shortened" =>
        LET upper == {i \in DOMAIN type_str : type_str[i] \in Range(UpperSeq)}
            alnum == SelectSeq(type_str, is_ascii_alphanumeric)
        IN  /\ upper # {} =>
                LET h == First(upper)
                    lts == {i \in h..Len(type_str) : type_str[i] = "<"}
                IN  lts # {} =>
                        LET l == First(lts)
                            H == SubSeq(type_str, h, l - 1)
                            R == SubSeq(type_str, l + 1, Len(type_str))
                        IN  variant_name =
                                Append2(SelectSeq(H, is_ascii_alphanumeric),
                                        shorten_type(R))
            /\ (upper = {} /\ alnum # <<>>) =>
                variant_name = <<to_uppercase(alnum[1])>> \o Tail(alnum)
            /\ ty = t_Option(t_Option(t_i64)) => variant_name = tag_OptionOptionI64
            /\ ty = Path(<<id_std, id_option, id_Option>>, <<t_String>>) =>
                variant_name = tag_OptionString
            /\ ty = t_u8 => variant_name = tag_U8
            /\ ty = t_T => variant_name = id_T

\* C4 witness: Option<Option<i64>> has been shortened to OptionOptionI64
W4_NestedOption ==
    /\ pc = "shortened"
    /\ ty = t_Option(t_Option(t_i64))
    /\ variant_name = tag_OptionOptionI64

\* C5: a signature and the signature with the qualification of its paths
\* removed get the same tag.
CX5_QualifiedSameTag ==
    pc = "shortened" => variant_name = shorten_type(Render(Strip(ty)))

(***************************************************************************)
(* Properties of the expansion and of the accessors (under Spec).          *)
(***************************************************************************)
Expanded == pc \in {"expanded", "rejected", "compiled", "live"}

\* the #[fieldname = "..."] string attributes of a field, by position
OverrideAt(f) ==
    {k \in DOMAIN f.attrs :
        /\ f.attrs[k].meta = "NameValue"
        /\ f.attrs[k].path = "fieldname"
        /\ f.attrs[k].lit = "Str"}

\* the resolved tag of a field: the explicit override if present, otherwise
\* the canonical tag of its type signature
ResolvedTag(f) ==
    IF OverrideAt(f) # {} THEN f.attrs[First(OverrideAt(f))].value
    ELSE shorten_type(Render(f.ty))

FieldNamed(n) == inp.fields[CHOOSE i \in DOMAIN inp.fields : inp.fields[i].ident = n]

\* the first field, in declaration order, of a resolved tag
FirstWithTag(tag) == First({i \in DOMAIN inp.fields : ResolvedTag(inp.fields[i]) = tag})

\* C1: field(n) on a declared name n returns Some of a shared case tagged
\* with the resolved tag of n whose payload is the stored value of n, and
\* leaves the record unchanged.
C1_FieldView ==
    [][(ret' # ret /\ ret'.call = "field" /\ ret'.arg \in DeclaredNames(inp)) =>
          /\ ret'.res.some
          /\ ret'.res.val.variant_ident = ResolvedTag(FieldNamed(ret'.arg))
          /\ ~ret'.res.val.is_mut
          /\ self'[ret'.res.val.field] = self'[ret'.arg]
          /\ self' = self]_vars

\* C1 witness: field("age") returned the case AmazingAge of an overridden
\* field that holds another value than the field declared before it
W1_FieldView ==
    /\ pc = "live"
    /\ ret.call = "field"
    /\ ret.arg = "age"
    /\ ret.res.some
    /\ ret.res.val.variant_ident = id_AmazingAge
    /\ self["age"] = "v1"
    /\ self["name"] = "v0"
    /\ ~excl.some

\* C2: field(x) and field_mut(x) on a string x that is no declared field
\* name return None and change neither the record nor its borrow.
C2_UnknownName ==
    [][(/\ ret' # ret
        /\ ret'.call \in {"field", "field_mut"}
        /\ ret'.arg \notin DeclaredNames(inp)) =>
          /\ ~ret'.res.some
          /\ self' = self
          /\ excl' = excl]_vars

\* C2 witness: field_mut("Age") returned None on a record that declares age
W2_UnknownName ==
    /\ pc = "live"
    /\ "age" \in DeclaredNames(inp)
    /\ ret.call = "field_mut"
    /\ ret.arg = "Age"
    /\ ~ret.res.some

\* C3: when the exclusive view returned by field_mut(n) is released after a
\* value v was written through it, field n of the record holds v and
\* field(n) returns a view of v.
C3_WriteThroughView ==
    [][(excl.some /\ ~excl'.some /\ excl.wrote.some) =>
          /\ self'[excl.name] = excl.wrote.val
          /\ LET r == match_fieldname(out.macro.match_arms, excl.name)
             IN  r.some /\ self'[r.val.field] = excl.wrote.val]_vars

\* C3 witness: v1 was written through the view of field_mut("age") of a
\* record with a field before it, and the view was released
W3_Written ==
    /\ pc = "live"
    /\ ~excl.some
    /\ ret.call = "field_mut"
    /\ ret.arg = "age"
    /\ self["age"] = "v1"
    /\ self["name"] = "v0"

\* C6: the variants of the generated enum are the unique-by-resolved-tag
\* projection of the fields in declaration order, each with the type of the
\* first field of its tag; the Mut enum has the same variants and differs
\* in the borrow mode only.
C6_UniqueByTag ==
    Expanded =>
        LET V == out.macro.value_variants
            M == out.macro.value_variants_mut
            F == inp.fields
        IN  /\ \A i \in DOMAIN F :
                    Cardinality({k \in DOMAIN V :
                        V[k].variant_ident = ResolvedTag(F[i])}) = 1
            /\ \A k \in DOMAIN V :
                    /\ \E i \in DOMAIN F : ResolvedTag(F[i]) = V[k].variant_ident
                    /\ V[k].field_type = F[FirstWithTag(V[k].variant_ident)].ty
                    /\ ~V[k].is_mut
            /\ \A k1, k2 \in DOMAIN V :
                    k1 < k2 => FirstWithTag(V[k1].variant_ident)
                               < FirstWithTag(V[k2].variant_ident)
            /\ DOMAIN M = DOMAIN V
            /\ \A k \in DOMAIN V :
                    M[k] = [V[k] EXCEPT !.is_mut = TRUE]

\* C6 witness: four fields, three of them of tag I64 and one overridden in
\* between, gave three variants
W6_Deduplicated ==
    /\ Expanded
    /\ inp = NamedFieldname
    /\ Len(out.macro.value_variants) = 3
    /\ Len(out.macro.value_variants_mut) = 3

\* two fields of the record resolve to one tag
SharedTag ==
    \E i, j \in DOMAIN inp.fields :
        i # j /\ ResolvedTag(inp.fields[i]) = ResolvedTag(inp.fields[j])

\* C7: when two fields resolve to the same tag, also with different type
\* signatures, the enum has one case of that tag and the accessor of either
\* field yields that case holding the value of the field.
CX7_MergedCase ==
    (Expanded /\ SharedTag) =>
        /\ pc # "rejected"
        /\ \A i \in DOMAIN inp.fields :
               Cardinality({k \in DOMAIN out.macro.value_variants :
                   out.macro.value_variants[k].variant_ident
                       = ResolvedTag(inp.fields[i])}) = 1
        /\ \A n \in DeclaredNames(inp) :
               LET r == match_fieldname(out.macro.match_arms, n)
               IN  /\ r.some
                   /\ r.val.variant_ident = ResolvedTag(FieldNamed(n))
                   /\ pc = "live" => self[r.val.field] = self[n]

\* C8: a field with an explicit override has the override as its tag in both
\* enums and both accessors, every other field has the canonical tag of its
\* type; dog_age: i64, cat_age: i64 and age: i64 with the override
\* AmazingAge give the two cases I64 and AmazingAge.
C8_ExplicitTag ==
    Expanded =>
        /\ \A i \in DOMAIN inp.fields :
               LET f == inp.fields[i]
                   tag == IF OverrideAt(f) # {}
                          THEN f.attrs[First(OverrideAt(f))].value
                          ELSE shorten_type(Render(f.ty))
               IN  /\ out.macro.match_arms[i].pattern = f.ident
                   /\ out.macro.match_arms[i].variant_ident = tag
                   /\ out.macro.match_arms_mut[i].pattern = f.ident
                   /\ out.macro.match_arms_mut[i].variant_ident = tag
                   /\ \E k \in DOMAIN out.macro.value_variants :
                          out.macro.value_variants[k].variant_ident = tag
                   /\ \E k \in DOMAIN out.macro.value_variants_mut :
                          out.macro.value_variants_mut[k].variant_ident = tag
        /\ inp = ThreeAges =>
               /\ [k \in DOMAIN out.macro.value_variants |->
                      out.macro.value_variants[k].variant_ident]
                  = <<tag_I64, id_AmazingAge>>
               /\ [k \in DOMAIN out.macro.value_variants_mut |->
                      out.macro.value_variants_mut[k].variant_ident]
                  = <<tag_I64, id_AmazingAge>>
               /\ match_fieldname(out.macro.match_arms, "age").val.variant_ident
                  = id_AmazingAge
               /\ match_fieldname(out.macro.match_arms, "dog_age").val.variant_ident
                  = tag_I64
               /\ match_fieldname(out.macro.match_arms, "cat_age").val.variant_ident
                  = tag_I64

\* C8 witness: on the record of the three ages, field_mut("age") returned
\* the case AmazingAge
W8_ThreeAges ==
    /\ pc = "live"
    /\ inp = ThreeAges
    /\ ret.call = "field_mut"
    /\ ret.arg = "age"
    /\ ret.res.some
    /\ ret.res.val.variant_ident = id_AmazingAge
    /\ Len(out.macro.value_variants) = 2

\* C9: the macro aborts without output on an enum, a union, a tuple struct
\* and a record without fields, and gives output only for a struct whose
\* fields are all named.
CX9_ShapeRejected ==
    pc # "input" =>
        /\ (\/ inp.data \in {"Enum", "Union"}
            \/ inp.fields_kind = "Unnamed"
            \/ inp.fields = <<>>) => out.macro.panicked
        /\ ~out.macro.panicked =>
               inp.data = "Struct" /\ inp.fields_kind = "Named"

ValidIdentifier(tag) ==
    /\ tag # Panic
    /\ tag # <<>>
    /\ \A k \in DOMAIN tag : is_ascii_alphanumeric(tag[k]) \/ tag[k] = "_"
    /\ tag[1] \notin Range(DigitSeq)

\* C11: on a struct with named fields the macro never aborts because of the
\* type signature of a field: the canonicalizer returns, for every
\* signature, a non-empty tag that is a valid identifier.
CX11_NoAbortOnSignature ==
    (pc # "input" /\ inp.data = "Struct" /\ inp.fields_kind = "Named") =>
        /\ \A i \in DOMAIN inp.fields :
               ValidIdentifier(generate_variant_name(inp.fields[i].ty))
        /\ ~out.macro.panicked

====
